---- MODULE Spec2Model ----
(***************************************************************************)
(* Model of valutatrade_hub/core/models.py: User, Wallet and Portfolio.    *)
(*                                                                         *)
(* Numbers.  A Python float is modelled exactly, on two families of IEEE   *)
(* doubles:                                                                *)
(*   - small floats: k * 2^-1074 (k an integer, the subnormal doubles;     *)
(*     5e-324 is k = 1).  On these, float arithmetic is exact arithmetic   *)
(*     rounded to the nearest integer multiple of 2^-1074 (ties to even);  *)
(*   - big floats: the double nearest h * 1e-294 (h = 1 is 1e-294).        *)
(* A decimal.Decimal is an integer number of units of 1E-324, written      *)
(* hi * 10^30 + lo.  Decimal(str(x)) of a float x is the shortest decimal  *)
(* that reads back as x (float.__repr__), and the result of a Decimal      *)
(* addition or subtraction is rounded to the 28 significant digits of the  *)
(* default decimal context (ROUND_HALF_EVEN).                              *)
(*                                                                         *)
(* Annotations are taken as not evaluated (as from Python 3.14 on); the    *)
(* method bodies are what is modelled.                                     *)
(***************************************************************************)
EXTENDS Integers, Sequences, FiniteSets, TLC

VARIABLES user, accepted, wallet, wallets, calls, last, pre, copy

vars == <<user, accepted, wallet, wallets, calls, last, pre, copy>>

(***************************************************************************)
(* Bounds of the model                                                     *)
(***************************************************************************)
\* largest small float (in units of 2^-1074) passed to a Wallet operation
MaxAmount == 11
\* largest small float passed to a Portfolio operation
MaxTrade == 9
\* largest lo part of a balance that a deposit may still be added to
MaxBalance == 60
\* largest hi part of a balance that a deposit may still be added to
MaxBig == 2
\* longest password
MaxPwLen == 4
\* number of calls made on a Portfolio
MaxCalls == 5

(***************************************************************************)
(* IEEE-754 doubles and decimal.Decimal                                    *)
(***************************************************************************)
\* 2^-1074 = 4.940656458412465441765687...E-324: the digits of this ratio in
\* base 10^4, least significant limb first (24 decimals).
QLimbs == <<5687, 4176, 4654, 8412, 5645, 9406, 4>>

Base == 100 * 100

XLimbs(x) == <<x % Base, (x \div Base) % Base, x \div (Base * Base)>>

\* sum of the limb products of weight Base^(c-2) in x * QLimbs (c from 2)
Column(x, c) ==
    LET xl == XLimbs(x)
        F[i \in 0..3] ==
            IF i = 0 THEN 0
            ELSE F[i - 1] + (IF c - i \in 1..7 THEN xl[i] * QLimbs[c - i] ELSE 0)
    IN  F[3]

RECURSIVE CarryInto(_, _)
CarryInto(x, c) ==
    IF c = 2 THEN 0 ELSE (Column(x, c - 1) + CarryInto(x, c - 1)) \div Base

\* floor(x * 2^-1074 / 1E-324) for a natural x: schoolbook multiplication
FloorMulQ(x) ==
    Column(x, 8) + CarryInto(x, 8) + Base * Column(x, 9) + Base * Base * Column(x, 10)

RECURSIVE Pow10(_)
Pow10(j) == IF j = 0 THEN 1 ELSE 10 * Pow10(j - 1)

\* the largest j such that a multiple of 10^j lies in L..H
RECURSIVE MaxExp(_, _, _)
MaxExp(L, H, j) ==
    IF j < 8 /\ (H \div Pow10(j + 1)) * Pow10(j + 1) >= L
    THEN MaxExp(L, H, j + 1) ELSE j

\* float.__repr__ of the small float k > 0, read as a number of units of
\* 1E-324: the shortest decimal in the rounding interval of k, the nearest
\* to k when several are as short.
Repr(k) ==
    LET L == (FloorMulQ(2 * k - 1) \div 2) + 1
        H == FloorMulQ(2 * k + 1) \div 2
        j == MaxExp(L, H, 0)
    IN  IF j = 0 THEN (FloorMulQ(2 * k) + 1) \div 2
        ELSE (H \div Pow10(j)) * Pow10(j)

\* a float: big = 0 and k small units of 2^-1074, or the double nearest
\* big * 1e-294 (k = 0)
Float(k) == [numeric |-> TRUE, big |-> 0, k |-> k]

BigFloat(h) == [numeric |-> TRUE, big |-> h, k |-> 0]

\* an argument that is not a float or an int (a str)
NotANumber == [numeric |-> FALSE, big |-> 0, k |-> 0]

Dec(hi, lo) == [hi |-> hi, lo |-> lo]

\* Decimal(str(x)) for a float x
DecimalOfStr(x) ==
    IF x.big > 0 THEN Dec(x.big, 0)
    ELSE IF x.k = 0 THEN Dec(0, 0)
    ELSE IF x.k > 0 THEN Dec(0, Repr(x.k))
    ELSE Dec(0, 0 - Repr(0 - x.k))

DecIsNegative(d) == d.hi < 0 \/ (d.hi = 0 /\ d.lo < 0)

DecLess(d, e) == d.hi < e.hi \/ (d.hi = e.hi /\ d.lo < e.lo)

\* n / q rounded to the nearest integer, ties to the even one
RoundHalfEven(n, q) ==
    LET f == n \div q
        r == n % q
    IN  IF 2 * r < q THEN f
        ELSE IF 2 * r > q THEN f + 1
        ELSE IF f % 2 = 0 THEN f ELSE f + 1

\* number of decimal digits of hi * 10^30 + lo beyond the 28 of the context
ExcessDigits(hi, lo) ==
    IF hi <= 0 THEN 0
    ELSE LET d == IF hi >= 10 THEN 4 ELSE 3
         IN  IF lo < 0 /\ hi \in {1, 10} THEN d - 1 ELSE d

\* the decimal context rounds a result to 28 significant digits
ContextRound(hi, lo) ==
    LET q == Pow10(ExcessDigits(hi, lo))
    IN  Dec(hi, RoundHalfEven(lo, q) * q)

DecAdd(d, e) == ContextRound(d.hi + e.hi, d.lo + e.lo)

DecSub(d, e) == ContextRound(d.hi - e.hi, d.lo - e.lo)

\* x > d for a positive float x and a Decimal d, compared exactly (Decimal
\* compares with float by value).  k * 2^-1074 is never a whole number of
\* units, and the double 1e-294 exceeds 1E-294 by 1.66E-311.
FloatGreater(x, d) ==
    IF x.big > 0 THEN d.hi < x.big \/ (d.hi = x.big /\ x.big = 1)
    ELSE d.hi < 0 \/ (d.hi = 0 /\ FloorMulQ(x.k) >= d.lo)

\* the small float nearest b units of 1E-324, b >= 0 (no b > 0 is halfway)
NearestSmall(b) ==
    IF b = 0 THEN 0
    ELSE CHOOSE n \in (b \div 5)..((b \div 4) + 1) :
           /\ (n = 0 \/ FloorMulQ(2 * n - 1) < 2 * b)
           /\ 2 * b <= FloorMulQ(2 * n + 1)

\* float(d) for a Decimal d: the nearest double
FloatOfDec(d) ==
    IF d.hi > 0 THEN BigFloat(d.hi)
    ELSE IF d.lo >= 0 THEN Float(NearestSmall(d.lo))
    ELSE Float(0 - NearestSmall(0 - d.lo))

IsDecimal(v) == "hi" \in DOMAIN v

\* Decimal(str(v)) for a Decimal or a float v
DecimalOf(v) == IF IsDecimal(v) THEN v ELSE DecimalOfStr(v)

\* amount <= 0 for a float
NotPositive(a) == a.big = 0 /\ a.k <= 0

(***************************************************************************)
(* Wallet                                                                  *)
(***************************************************************************)
Result(res, w) == [res |-> res, w |-> w]

\* Wallet.__init__: the balance is stored without validation
Wallet_init(currency_code, balance) ==
    [currency_code |-> currency_code, balance |-> DecimalOfStr(balance)]

\* Wallet.balance setter; Decimal(str(value)) of a str that is not a number
\* raises decimal.InvalidOperation, which the except clause does not catch
balance_setter(w, value) ==
    IF ~IsDecimal(value) /\ ~value.numeric THEN Result("InvalidOperation", w)
    ELSE IF DecIsNegative(DecimalOf(value)) THEN Result("ValueError", w)
    ELSE Result("ok", [w EXCEPT !.balance = DecimalOf(value)])

deposit(w, amount) ==
    IF ~amount.numeric THEN Result("TypeError", w)
    ELSE IF NotPositive(amount) THEN Result("ValueError", w)
    ELSE balance_setter(w, DecAdd(w.balance, DecimalOfStr(amount)))

withdraw(w, amount) ==
    IF ~amount.numeric THEN Result("TypeError", w)
    ELSE IF NotPositive(amount) THEN Result("ValueError", w)
    ELSE IF FloatGreater(amount, w.balance) THEN Result("ValueError", w)
    ELSE balance_setter(w, DecSub(w.balance, DecimalOfStr(amount)))

get_balance_info(w) ==
    [currency_code |-> w.currency_code, balance |-> FloatOfDec(w.balance)]

Wallet_to_dict(w) ==
    [currency_code |-> w.currency_code, balance |-> FloatOfDec(w.balance)]

Wallet_from_dict(data) == Wallet_init(data.currency_code, data.balance)

(***************************************************************************)
(* A Wallet on its own                                                     *)
(***************************************************************************)
\* the floats passed to a Wallet: small ones, and 1e-294
WalletFloats == {Float(k) : k \in (0 - 1)..MaxAmount} \cup {BigFloat(1)}

WalletArgs == WalletFloats \cup {NotANumber}

\* Python's None
None == [none |-> TRUE]

WalletCall(op, a, res) == [op |-> op, a |-> a, res |-> res]

\* deposits, and withdrawals from a big balance, are bounded, so that the
\* balance is
RoomFor(w) == w.balance.hi <= MaxBig /\ w.balance.lo <= MaxBalance

RoomBelow(w) == w.balance.lo >= 0 - MaxBalance

InitWallet ==
    /\ \E x \in WalletFloats :
         wallet = Wallet_from_dict([currency_code |-> "BTC", balance |-> x])
    /\ last = WalletCall("init", Float(0), "ok")
    /\ pre = wallet
    /\ copy = None
    /\ user = None
    /\ accepted = None
    /\ wallets = None
    /\ calls = 0

Deposit(a) ==
    /\ RoomFor(wallet)
    /\ wallet' = deposit(wallet, a).w
    /\ last' = WalletCall("deposit", a, deposit(wallet, a).res)
    /\ pre' = wallet
    /\ copy' = None
    /\ UNCHANGED <<user, accepted, wallets, calls>>

Withdraw(a) ==
    /\ RoomBelow(wallet)
    /\ wallet' = withdraw(wallet, a).w
    /\ last' = WalletCall("withdraw", a, withdraw(wallet, a).res)
    /\ pre' = wallet
    /\ copy' = None
    /\ UNCHANGED <<user, accepted, wallets, calls>>

SetBalance(a) ==
    /\ wallet' = balance_setter(wallet, a).w
    /\ last' = WalletCall("balance", a, balance_setter(wallet, a).res)
    /\ pre' = wallet
    /\ copy' = None
    /\ UNCHANGED <<user, accepted, wallets, calls>>

\* from_dict(to_dict(wallet)) builds a second Wallet
WalletRoundTrip ==
    /\ copy' = Wallet_from_dict(Wallet_to_dict(wallet))
    /\ last' = WalletCall("round_trip", Float(0), "ok")
    /\ pre' = wallet
    /\ UNCHANGED <<wallet, user, accepted, wallets, calls>>

NextWallet ==
    \/ \E a \in WalletArgs : Deposit(a)
    \/ \E a \in WalletArgs : Withdraw(a)
    \/ \E a \in WalletArgs : SetBalance(a)
    \/ WalletRoundTrip

SpecWallet == InitWallet /\ [][NextWallet]_vars

(***************************************************************************)
(* Portfolio                                                               *)
(***************************************************************************)
\* Portfolio.EXCHANGE_RATES.  A rate is the double nearest num / den;
\* excess = 1 when that double is above num / den (1.1 is
\* 1.100000000000000088..., 0.012 is 0.01200000000000000024...), 0 when it
\* is num / den.
EXCHANGE_RATES ==
    [USD |-> [num |-> 1, den |-> 1, excess |-> 0],
     EUR |-> [num |-> 11, den |-> 10, excess |-> 1],
     BTC |-> [num |-> 40000, den |-> 1, excess |-> 0],
     RUB |-> [num |-> 3, den |-> 250, excess |-> 1]]

\* n / d rounded to the nearest integer; a tie goes up when the exact value
\* is above n / d (dir = 1), down when it is below (dir = -1), to the even
\* integer when it is n / d
RoundNearest(n, d, dir) ==
    LET f == n \div d
        r == n % d
    IN  IF 2 * r < d THEN f
        ELSE IF 2 * r > d THEN f + 1
        ELSE IF dir = 1 THEN f + 1
        ELSE IF dir = 0 - 1 THEN f
        ELSE IF f % 2 = 0 THEN f ELSE f + 1

\* k * rate and k / rate for a small float k > 0: the exact product or
\* quotient rounded to the nearest small float (gradual underflow)
FloatMul(k, rate) == RoundNearest(k * rate.num, rate.den, rate.excess)

FloatDiv(k, rate) == RoundNearest(k * rate.den, rate.num, 0 - rate.excess)

PResult(res, W, ret) == [res |-> res, wallets |-> W, ret |-> ret]

\* Portfolio.__init__: no wallet
Portfolio_init == << >>

\* add_currency without the look-up in the rate table
add_currency_unchecked(W, currency_code) ==
    IF currency_code \in DOMAIN W THEN PResult("ValueError", W, None)
    ELSE PResult("ok",
                 [c \in DOMAIN W \cup {currency_code} |->
                    IF c = currency_code THEN Wallet_init(currency_code, Float(0))
                    ELSE W[c]],
                 None)

add_currency(W, currency_code) ==
    IF currency_code \in DOMAIN W THEN PResult("ValueError", W, None)
    ELSE IF currency_code \notin DOMAIN EXCHANGE_RATES
    THEN PResult("ValueError", W, None)
    ELSE PResult("ok",
                 [c \in DOMAIN W \cup {currency_code} |->
                    IF c = currency_code THEN Wallet_init(currency_code, Float(0))
                    ELSE W[c]],
                 None)

get_wallet(W, currency_code) ==
    IF currency_code \in DOMAIN W THEN W[currency_code] ELSE None

\* Decimal * float is not defined: wallet.balance * currency_rate raises
DecimalTimesFloat(d, rate) == "TypeError"

\* the loop stops in its first iteration with a wallet of a known currency
get_total_value(W, base_currency) ==
    IF base_currency \notin DOMAIN EXCHANGE_RATES THEN PResult("ValueError", W, None)
    ELSE IF \E c \in DOMAIN W : W[c].currency_code \in DOMAIN EXCHANGE_RATES
    THEN LET c == CHOOSE c \in DOMAIN W : W[c].currency_code \in DOMAIN EXCHANGE_RATES
         IN  PResult(DecimalTimesFloat(W[c].balance, EXCHANGE_RATES[W[c].currency_code]),
                     W, None)
    ELSE PResult("ok", W, Float(0))

\* the amount converted by buy_currency: (amount * from_rate) / to_rate
Converted(amount, from_currency, to_currency) ==
    Float(FloatDiv(FloatMul(amount.k, EXCHANGE_RATES[from_currency]),
                   EXCHANGE_RATES[to_currency]))

\* amount <= 0 raises TypeError for a str.  from_wallet and to_wallet are
\* the same object when the two codes are equal.
buy_currency(W, amount, from_currency, to_currency) ==
    IF ~amount.numeric THEN PResult("TypeError", W, None)
    ELSE IF NotPositive(amount) THEN PResult("ValueError", W, None)
    ELSE IF get_wallet(W, from_currency) = None \/ get_wallet(W, to_currency) = None
    THEN PResult("ValueError", W, None)
    ELSE LET wd == withdraw(W[from_currency], amount)
             W1 == [W EXCEPT ![from_currency] = wd.w]
             dp == deposit(W1[to_currency],
                           Converted(amount, from_currency, to_currency))
         IN  IF wd.res # "ok" THEN PResult(wd.res, W, None)
             ELSE PResult(dp.res, [W1 EXCEPT ![to_currency] = dp.w], None)

\* the method ends after reading from_rate: nothing is deposited
sell_currency(W, amount, from_currency, to_currency) ==
    IF ~amount.numeric THEN PResult("TypeError", W, None)
    ELSE IF NotPositive(amount) THEN PResult("ValueError", W, None)
    ELSE IF get_wallet(W, from_currency) = None \/ get_wallet(W, to_currency) = None
    THEN PResult("ValueError", W, None)
    ELSE IF FloatGreater(amount, W[from_currency].balance)
    THEN PResult("ValueError", W, None)
    ELSE LET wd == withdraw(W[from_currency], amount)
         IN  PResult(wd.res, [W EXCEPT ![from_currency] = wd.w], None)

(***************************************************************************)
(* A Portfolio and the wallets it hands out                                *)
(***************************************************************************)
\* the currency codes passed to a Portfolio: three of the table, and one
\* that is not in it
Codes == {"USD", "EUR", "BTC", "XXX"}

\* the amounts passed to buy_currency and sell_currency
TradeArgs == {Float(k) : k \in {0 - 1, 0, 1, 2, MaxTrade}} \cup {NotANumber}

\* the amounts deposited into a wallet obtained from get_wallet
FundFloats == {Float(1), Float(MaxTrade), BigFloat(1)}

PCall(op, a, from, to, res, ret) ==
    [op |-> op, a |-> a, from |-> from, to |-> to, res |-> res, ret |-> ret]

InitPortfolio ==
    /\ wallets = Portfolio_init
    /\ calls = 0
    /\ last = PCall("init", Float(0), None, None, "ok", None)
    /\ pre = wallets
    /\ copy = None
    /\ user = None
    /\ accepted = None
    /\ wallet = None

AddCurrency(code) ==
    /\ calls < MaxCalls
    /\ wallets' = add_currency(wallets, code).wallets
    /\ last' = PCall("add_currency", Float(0), code, None,
                     add_currency(wallets, code).res, None)
    /\ pre' = wallets
    /\ calls' = calls + 1
    /\ UNCHANGED <<user, accepted, wallet, copy>>

\* get_wallet(code).deposit(a): the way a wallet of a portfolio gets funds
Fund(code, a) ==
    /\ calls < MaxCalls
    /\ get_wallet(wallets, code) # None
    /\ wallets' = [wallets EXCEPT ![code] = deposit(get_wallet(wallets, code), a).w]
    /\ last' = PCall("deposit", a, code, None,
                     deposit(get_wallet(wallets, code), a).res, None)
    /\ pre' = wallets
    /\ calls' = calls + 1
    /\ UNCHANGED <<user, accepted, wallet, copy>>

BuyCurrency(a, from, to) ==
    /\ calls < MaxCalls
    /\ wallets' = buy_currency(wallets, a, from, to).wallets
    /\ last' = PCall("buy_currency", a, from, to,
                     buy_currency(wallets, a, from, to).res, None)
    /\ pre' = wallets
    /\ calls' = calls + 1
    /\ UNCHANGED <<user, accepted, wallet, copy>>

SellCurrency(a, from, to) ==
    /\ calls < MaxCalls
    /\ wallets' = sell_currency(wallets, a, from, to).wallets
    /\ last' = PCall("sell_currency", a, from, to,
                     sell_currency(wallets, a, from, to).res, None)
    /\ pre' = wallets
    /\ calls' = calls + 1
    /\ UNCHANGED <<user, accepted, wallet, copy>>

GetTotalValue(base) ==
    /\ calls < MaxCalls
    /\ wallets' = get_total_value(wallets, base).wallets
    /\ last' = PCall("get_total_value", Float(0), base, None,
                     get_total_value(wallets, base).res,
                     get_total_value(wallets, base).ret)
    /\ pre' = wallets
    /\ calls' = calls + 1
    /\ UNCHANGED <<user, accepted, wallet, copy>>

NextPortfolio ==
    \/ \E code \in Codes : AddCurrency(code)
    \/ \E code \in Codes, a \in FundFloats : Fund(code, a)
    \/ \E a \in TradeArgs, from \in Codes, to \in Codes : BuyCurrency(a, from, to)
    \/ \E a \in TradeArgs, from \in Codes, to \in Codes : SellCurrency(a, from, to)
    \/ \E base \in Codes : GetTotalValue(base)

SpecPortfolio == InitPortfolio /\ [][NextPortfolio]_vars

(***************************************************************************)
(* User                                                                    *)
(***************************************************************************)
\* A str is a sequence of code points.  str.encode('utf-8'): one byte below
\* U+0080, two bytes below U+0800.
Utf8Char(cp) ==
    IF cp < 128 THEN <<cp>> ELSE <<192 + (cp \div 64), 128 + (cp % 64)>>

RECURSIVE encode(_)
encode(str) ==
    IF str = << >> THEN << >> ELSE Utf8Char(Head(str)) \o encode(Tail(str))

\* hashlib.sha256(bytes).hexdigest(), taken as collision-free: the digest
\* of a byte string stands for that byte string and no other.  The empty
\* sequence is the str "", which is no digest.
sha256_hexdigest(bytes) == <<"sha256">> \o bytes

\* datetime.isoformat(): the microseconds are left out when they are 0
isoformat(d) ==
    IF d.microsecond = 0
    THEN <<d.year, d.month, d.day, "T", d.hour, d.minute, d.second>>
    ELSE <<d.year, d.month, d.day, "T", d.hour, d.minute, d.second, ".",
           d.microsecond>>

\* datetime.fromisoformat()
fromisoformat(str) ==
    [year |-> str[1], month |-> str[2], day |-> str[3], hour |-> str[5],
     minute |-> str[6], second |-> str[7],
     microsecond |-> IF Len(str) > 7 THEN str[9] ELSE 0]

\* what the name datetime is bound to in models.py: line 2 imports the
\* module, line 8 (from datetime import datetime) rebinds it to the class
DatetimeName == "class"

User_init(user_id, username, hashed_password, salt, registration_date) ==
    [user_id |-> user_id, username |-> username,
     hashed_password |-> hashed_password, salt |-> salt,
     registration_date |-> registration_date]

UResult(res, u, ret) == [res |-> res, user |-> u, ret |-> ret]

username_setter(u, value) ==
    IF value = "" THEN UResult("ValueError", u, None)
    ELSE UResult("ok", [u EXCEPT !.username = value], None)

get_user_info(u) ==
    [user_id |-> u.user_id, username |-> u.username,
     registration_date |-> isoformat(u.registration_date)]

hash_password(u, password) == sha256_hexdigest(encode(password) \o encode(u.salt))

\* change_password that counts bytes instead of code points
change_password_bytes(u, new_password) ==
    IF Len(encode(new_password)) < 4 THEN UResult("ValueError", u, None)
    ELSE UResult("ok", [u EXCEPT !.hashed_password = hash_password(u, new_password)],
                 None)

\* len() counts code points
change_password(u, new_password) ==
    IF Len(new_password) < 4 THEN UResult("ValueError", u, None)
    ELSE UResult("ok", [u EXCEPT !.hashed_password = hash_password(u, new_password)],
                 None)

verify_password(u, password) == hash_password(u, password) = u.hashed_password

User_to_dict(u) ==
    [user_id |-> u.user_id, username |-> u.username,
     hashed_password |-> u.hashed_password, salt |-> u.salt,
     registration_date |-> isoformat(u.registration_date)]

\* datetime.datetime.fromisoformat: the class datetime has no attribute
\* datetime, so the argument list of cls(...) is never completed
User_from_dict(data) ==
    IF DatetimeName = "module"
    THEN UResult("ok",
                 User_init(data.user_id, data.username, data.hashed_password,
                           data.salt, fromisoformat(data.registration_date)),
                 None)
    ELSE UResult("AttributeError", None, None)

(***************************************************************************)
(* A User on its own                                                       *)
(***************************************************************************)
\* the code points of passwords and salts: x and e-acute
CodePoints == {120, 233}

RECURSIVE StrUpTo(_)
StrUpTo(n) ==
    IF n = 0 THEN {<< >>}
    ELSE StrUpTo(n - 1) \cup
         {Append(str, c) : str \in {t \in StrUpTo(n - 1) : Len(t) = n - 1}, c \in CodePoints}

Passwords == StrUpTo(MaxPwLen)

Salts == {<< >>, <<120>>}

Usernames == {"", "bob"}

Dates ==
    {[year |-> 2025, month |-> 1, day |-> 2, hour |-> 3, minute |-> 4,
      second |-> 5, microsecond |-> us] : us \in {0, 6}}

UCall(op, password, res, ret) ==
    [op |-> op, password |-> password, res |-> res, ret |-> ret]

\* a user as the demo block builds it: no password hash yet
InitUser ==
    /\ \E salt \in Salts, date \in Dates :
         user = User_init(1, "alice", << >>, salt, date)
    /\ accepted = None
    /\ last = UCall("init", << >>, "ok", None)
    /\ pre = user
    /\ copy = None
    /\ wallet = None
    /\ wallets = None
    /\ calls = 0

\* accepted records the last password that change_password accepted
ChangePassword(p) ==
    /\ user' = change_password(user, p).user
    /\ accepted' = IF change_password(user, p).res = "ok" THEN [password |-> p]
                   ELSE accepted
    /\ last' = UCall("change_password", p, change_password(user, p).res, None)
    /\ pre' = user
    /\ copy' = None
    /\ UNCHANGED <<wallet, wallets, calls>>

VerifyPassword(p) ==
    /\ last' = UCall("verify_password", p, "ok", verify_password(user, p))
    /\ pre' = user
    /\ copy' = None
    /\ UNCHANGED <<user, accepted, wallet, wallets, calls>>

SetUsername(v) ==
    /\ user' = username_setter(user, v).user
    /\ last' = UCall("username", << >>, username_setter(user, v).res, None)
    /\ pre' = user
    /\ copy' = None
    /\ UNCHANGED <<accepted, wallet, wallets, calls>>

GetUserInfo ==
    /\ last' = UCall("get_user_info", << >>, "ok", get_user_info(user))
    /\ pre' = user
    /\ copy' = None
    /\ UNCHANGED <<user, accepted, wallet, wallets, calls>>

\* from_dict(to_dict(user))
UserRoundTrip ==
    /\ copy' = User_from_dict(User_to_dict(user)).user
    /\ last' = UCall("round_trip", << >>, User_from_dict(User_to_dict(user)).res, None)
    /\ pre' = user
    /\ UNCHANGED <<user, accepted, wallet, wallets, calls>>

NextUser ==
    \/ \E p \in Passwords : ChangePassword(p)
    \/ \E p \in Passwords : VerifyPassword(p)
    \/ \E v \in Usernames : SetUsername(v)
    \/ GetUserInfo
    \/ UserRoundTrip

SpecUser == InitUser /\ [][NextUser]_vars

(***************************************************************************)
(* Properties of a Wallet (SpecWallet)                                     *)
(***************************************************************************)
\* the value of a float argument as the wallet reads it
ValueOf(a) == DecimalOfStr(a)

\* sum and difference of two Decimals without any rounding
ExactSum(d, e) == Dec(d.hi + e.hi, d.lo + e.lo)

ExactDiff(d, e) == Dec(d.hi - e.hi, d.lo - e.lo)

\* C4: the balance of a Wallet is never negative, however the Wallet was
\* built (constructor or from_dict) and whatever deposit, withdraw and the
\* balance setter did afterwards.
BalanceNeverNegative == ~DecIsNegative(wallet.balance)

\* C5: deposit(a) succeeds exactly when a is a number and a > 0, and then
\* adds exactly a; withdraw(a) succeeds exactly when a is a number and
\* 0 < a <= balance, and then subtracts exactly a; a failing deposit or
\* withdraw leaves the wallet unchanged.
DepositWithdrawContract ==
    /\ last.op = "deposit" =>
         /\ last.res = "ok" <=> (last.a.numeric /\ ~NotPositive(last.a))
         /\ last.res = "ok" =>
              wallet.balance = ExactSum(pre.balance, ValueOf(last.a))
         /\ last.res # "ok" => wallet = pre
    /\ last.op = "withdraw" =>
         /\ last.res = "ok" <=>
              /\ last.a.numeric
              /\ ~NotPositive(last.a)
              /\ ~DecLess(pre.balance, ValueOf(last.a))
         /\ last.res = "ok" =>
              wallet.balance = ExactDiff(pre.balance, ValueOf(last.a))
         /\ last.res # "ok" => wallet = pre

(***************************************************************************)
(* Properties of a Portfolio (SpecPortfolio)                               *)
(***************************************************************************)
\* the wallets of W other than those of the codes in S are as in V
OthersUnchanged(W, V, S) ==
    /\ DOMAIN W = DOMAIN V
    /\ \A c \in DOMAIN V \ S : W[c] = V[c]

\* (amount * rate[from]) / rate[to] as the floats give it
Quotient(amount, from, to) ==
    Float(RoundNearest(
            RoundNearest(amount.k * EXCHANGE_RATES[from].num,
                         EXCHANGE_RATES[from].den, EXCHANGE_RATES[from].excess)
              * EXCHANGE_RATES[to].den,
            EXCHANGE_RATES[to].num, 0 - EXCHANGE_RATES[to].excess))

\* C1: a successful buy_currency(amount, from, to) decreases the balance of
\* the from wallet by exactly amount, increases the balance of the to wallet
\* by exactly amount * rate[from] / rate[to] (the quotient as the floats
\* give it), and leaves every other wallet and the set of wallets unchanged;
\* with from = to the one wallet is decreased and then increased.
BuyEffect ==
    (last.op = "buy_currency" /\ last.res = "ok") =>
        LET debited == ExactDiff(pre[last.from].balance, ValueOf(last.a))
            credit == ValueOf(Quotient(last.a, last.from, last.to))
        IN  /\ last.from # last.to =>
                 /\ wallets[last.from].balance = debited
                 /\ wallets[last.to].balance =
                      ExactSum(pre[last.to].balance, credit)
            /\ last.from = last.to =>
                 wallets[last.to].balance = ExactSum(debited, credit)
            /\ OthersUnchanged(wallets, pre, {last.from, last.to})

\* C2: buy_currency is all-or-nothing: a call that fails, for whatever
\* reason, leaves every wallet as it was; the from wallet is never debited
\* without the to wallet being credited.
BuyAllOrNothing ==
    (last.op = "buy_currency" /\ last.res # "ok") => wallets = pre

\* C3: sell_currency is buy_currency with a check of the balance first: it
\* fails and succeeds as buy_currency does and leaves the balances that
\* buy_currency leaves.
SellLikeBuy ==
    last.op = "sell_currency" =>
        wallets = buy_currency(pre, last.a, last.from, last.to).wallets

\* C6: a portfolio holds one wallet per code, each of a code of the rate
\* table; add_currency fails and changes nothing when the code is already
\* held or is not in the table, and otherwise adds one wallet of that code
\* with balance 0 and changes no other wallet.
PortfolioCoherent ==
    /\ \A c \in DOMAIN wallets :
         wallets[c].currency_code = c /\ c \in DOMAIN EXCHANGE_RATES
    /\ last.op = "add_currency" =>
         IF last.from \in DOMAIN pre \/ last.from \notin DOMAIN EXCHANGE_RATES
         THEN last.res = "ValueError" /\ wallets = pre
         ELSE /\ last.res = "ok"
              /\ DOMAIN wallets = DOMAIN pre \cup {last.from}
              /\ wallets[last.from].balance = Dec(0, 0)
              /\ \A c \in DOMAIN pre : wallets[c] = pre[c]

\* a second add_currency of a code whose wallet holds funds
PortfolioCoherentWitness ==
    /\ last.op = "add_currency"
    /\ last.res = "ValueError"
    /\ last.from \in DOMAIN wallets
    /\ wallets[last.from].balance # Dec(0, 0)

\* the value of the wallets of the codes in S in the base currency
RECURSIVE TotalOf(_, _, _)
TotalOf(W, S, base) ==
    IF S = {} THEN 0
    ELSE LET c == CHOOSE c \in S : TRUE
         IN  TotalOf(W, S \ {c}, base)
               + FloatDiv(FloatMul(FloatOfDec(W[c].balance).k, EXCHANGE_RATES[c]),
                          EXCHANGE_RATES[base])

\* C7: get_total_value(base) fails with a ValueError when base is not in
\* the rate table; otherwise it returns the sum over the wallets of
\* balance * rate[currency] / rate[base], 0 for an empty portfolio; it
\* changes no wallet.
TotalValueLaw ==
    last.op = "get_total_value" =>
        /\ wallets = pre
        /\ IF last.from \notin DOMAIN EXCHANGE_RATES THEN last.res = "ValueError"
           ELSE /\ last.res = "ok"
                /\ last.ret = Float(TotalOf(pre, DOMAIN pre, last.from))

\* the change of the rate-weighted total between V and W, in 1/250 of a
\* unit, in two parts as the balances
WeightedChange(W, V, part) ==
    LET weight(c) == EXCHANGE_RATES[c].num * (250 \div EXCHANGE_RATES[c].den)
        delta(c) == IF part = "hi" THEN W[c].balance.hi - V[c].balance.hi
                    ELSE W[c].balance.lo - V[c].balance.lo
        Sum[S \in SUBSET DOMAIN V] ==
            IF S = {} THEN 0
            ELSE LET c == CHOOSE c \in S : TRUE
                 IN  Sum[S \ {c}] + weight(c) * delta(c)
    IN  Sum[DOMAIN V]

\* the float quotient is the exact quotient of the decimal amounts
ComputedExactly(amount, from, to) ==
    ValueOf(Quotient(amount, from, to)).lo
        * EXCHANGE_RATES[to].num * EXCHANGE_RATES[from].den
      = ValueOf(amount).lo * EXCHANGE_RATES[from].num * EXCHANGE_RATES[to].den

\* C10: buy_currency conserves value: whenever the converted amount is
\* computed exactly, the rate-weighted total of the balances is the same
\* after the call as before it, whether the call succeeds or fails, and
\* with from = to the balance of the wallet is unchanged.
BuyConservesValue ==
    ( /\ last.op = "buy_currency"
      /\ last.a.numeric
      /\ ~NotPositive(last.a)
      /\ last.from \in DOMAIN pre
      /\ last.to \in DOMAIN pre
      /\ ComputedExactly(last.a, last.from, last.to) ) =>
        /\ DOMAIN wallets = DOMAIN pre
        /\ WeightedChange(wallets, pre, "hi") = 0
        /\ WeightedChange(wallets, pre, "lo") = 0
        /\ last.from = last.to => wallets = pre

(***************************************************************************)
(* Properties of a User (SpecUser)                                         *)
(***************************************************************************)
\* C8: the stored hash is hash(p + salt) for the last password p that
\* change_password accepted, so that p verifies and p + "x" does not; a
\* password of fewer than 4 characters is rejected and leaves the user
\* unchanged, every other password is accepted; verify_password changes
\* nothing.
PasswordLaw ==
    /\ accepted # None =>
         /\ user.hashed_password =
              sha256_hexdigest(encode(accepted.password) \o encode(user.salt))
         /\ verify_password(user, accepted.password)
         /\ ~verify_password(user, accepted.password \o <<120>>)
    /\ last.op = "change_password" =>
         IF Len(last.password) < 4
         THEN last.res = "ValueError" /\ user = pre
         ELSE last.res = "ok" /\ accepted = [password |-> last.password]
    /\ last.op = "verify_password" =>
         /\ user = pre
         /\ accepted # None => (last.ret <=> last.password = accepted.password)

\* a password that was rejected after another had been accepted
PasswordLawWitness ==
    /\ accepted # None
    /\ last.op = "change_password"
    /\ last.res = "ValueError"
    /\ Len(last.password) = 3
    /\ verify_password(user, accepted.password)

\* C9: from_dict(to_dict(x)) is an entity equal to x in every serialized
\* attribute, for a User and for a Wallet whose balance is a float, and
\* to_dict does not change x.
RoundTripLaw ==
    last.op = "round_trip" =>
        /\ last.res = "ok"
        /\ user # None => (copy = user /\ user = pre)
        /\ wallet # None =>
             /\ wallet = pre
             /\ copy.currency_code = wallet.currency_code
             /\ wallet.balance = Dec(0, 0) => copy.balance = wallet.balance

====
